---- MODULE Spec2Model ----
(***************************************************************************)
(* Magic-link authentication of the gamegroup backend: issuance of a       *)
(* one-time token (request_auth_link / build_magic_link), its redemption   *)
(* (verify_auth_link / verify_token), the session credential (create_jwt)  *)
(* and the request authenticator (get_current_user / verify_jwt_token).    *)
(*                                                                         *)
(* Every HTTP request is handled by a worker; a worker's steps are the     *)
(* database round trips of the handler, so two requests interleave at      *)
(* exactly the places where the code talks to PostgreSQL.  Time is in      *)
(* minutes.  A database call may fail (get_connection raises); an SMTP     *)
(* send may fail.                                                          *)
(*                                                                         *)
(* The two routes that write table games (add_game, upload_games_csv) and  *)
(* the session handling of the browser client (App.show_section,           *)
(* App.handle_logout) are modelled with one step per request or event.     *)
(***************************************************************************)
EXTENDS Integers, Sequences, FiniteSets, TLC

\* ---------------------------------------------------------------- bounds
MaxTicks == 2
\* data rows of an uploaded CSV file
MaxRows == 2
\* rows of table games
MaxGames == 3

\* the requests in flight at one time
Workers == {"w1", "w2"}
\* the values secrets.token_urlsafe(32) can return
Tokens == {"tokA", "tokB"}
Emails == {"marklesh@yahoo.com", "alice@example.com"}
Usernames == {"lesh", "alice"}
\* the user whose record upsert_user and update_user_authorizations change
ChangingUser == "alice@example.com"

\* ------------------------------------------------------ program constants
MagicLinkMinutes == 15
JwtExpiresInHours == 24
DefaultJwtSecret == "your-secret-key-change-in-production"
JwtAlgorithm == "HS256"

\* The clock advances by one magic-link window or by one credential horizon.
TickSizes == {MagicLinkMinutes, JwtExpiresInHours * 60}

\* ------------------------------------------------- environment at startup
\* os.getenv("JWT_PRIVATE_KEY"): unset, or set to a secret.
EnvUnset == [set |-> FALSE, value |-> ""]
EnvValues == {EnvUnset, [set |-> TRUE, value |-> "k3y"]}

\* ------------------------------------------------ authorization strings
\* A string is a sequence of atoms: "," and " " are the single characters,
\* any other atom is a run of characters holding neither.
InitialAuthorizations == <<"is_contributor", ",", "is_admin", ",", "is_viewer">>
AuthStrings ==
    { InitialAuthorizations,
      <<" ", "is_viewer">> }

\* NULL or a string
NullAuth == [null |-> TRUE, s |-> <<>>]
StrAuth(s) == [null |-> FALSE, s |-> s]
AuthValues == {NullAuth} \cup {StrAuth(s) : s \in AuthStrings}

\* Further strings update_user_authorizations can store: one role alone, a
\* name the gates do not know with blanks around it, the name of the subject
\* claim, and the empty string.
GateAuthStrings ==
    AuthStrings \cup
    { <<"is_admin">>,
      <<"is_contributor", ",", " ", "vip", " ">>,
      <<"email">>,
      <<>> }
GateAuthValues == {NullAuth} \cup {StrAuth(s) : s \in GateAuthStrings}

VARIABLES
    env,          \* JWT_PRIVATE_KEY in the process environment
    now,          \* the wall clock, minutes
    ticks,        \* number of clock advances so far
    auth_links,   \* table auth_links, by token
    users,        \* table users, by email
    games,        \* table games, in the order of the SERIAL id
    outbox,       \* e-mails accepted by the SMTP server
    client_jwt,   \* the credential the HTTP client last received
    pc,           \* per worker: position in its handler
    req,          \* per worker: the request it serves
    token_data,   \* per worker: local token_data of verify_token
    response,     \* the HTTP response sent by the step just taken, if any
    issued_for,   \* history: the email build_magic_link was called with
    redeemed,     \* history: successful redemptions per token (capped at 2)
    failed,       \* history: a redemption of the issued token has failed
    local_storage,      \* browser: localStorage item "auth_token"
    current_user_info,  \* browser: App.current_user_info
    me_request,         \* browser: the GET /auth/me request in flight
    location_hash,      \* browser: window.location.hash without the #
    shown               \* browser: what the show_section just run has shown

\* the state of the browser client
client == <<local_storage, current_user_info, me_request, location_hash,
            shown>>

\* the state of the backend and of the HTTP client of its routes
backend == <<env, now, ticks, auth_links, users, games, outbox, client_jwt,
             pc, req, token_data, response, issued_for, redeemed, failed>>

vars == <<env, now, ticks, auth_links, users, games, outbox, client_jwt, pc,
          req, token_data, response, issued_for, redeemed, failed,
          local_storage, current_user_info, me_request, location_hash,
          shown>>

\* --------------------------------------------------------------- records
NoRow == [present |-> FALSE, email |-> "", created_at |-> 0, expires_at |-> 0,
          used |-> FALSE, used_at |-> {}]

NoUser == [present |-> FALSE, username |-> "", authorizations |-> NullAuth]

NoTokenData == [found |-> FALSE, email |-> "", expires_at |-> 0, used |-> FALSE]

\* the claims a signature is computed over
NoPayload == [email |-> "", exp |-> 0, iat |-> 0, flags |-> {}]

\* A credential string: the claims of its payload segment (email "" is a
\* claim set without the email claim) and its signature segment.  The
\* signature is the HMAC under the key sig of the payload signed; pad is the
\* value of the two bits of the segment's last base64url character that
\* belong to no byte of the 32-byte signature.
NoJwt == [present |-> FALSE, email |-> "", exp |-> 0, iat |-> 0, flags |-> {},
          sig |-> "", signed |-> NoPayload, pad |-> 0]

\* the values of the two unused bits
PadValues == 0..3

\* the payload segment of a credential string
Payload(cred) ==
    [email |-> cred.email, exp |-> cred.exp, iat |-> cred.iat,
     flags |-> cred.flags]

NoHeader == [kind |-> "absent", cred |-> NoJwt]

\* a GameCreate body: the fields the handler reads and the table constrains
NoGame == [title |-> "", min_players |-> 0, max_players |-> 0]

\* an uploaded file: its name as stem and suffix, the header row as
\* csv.DictReader.fieldnames, the data rows
NoFile == [filename |-> <<>>, fieldnames |-> {}, rows |-> <<>>]

\* the value of "errors" in the body of upload_games_csv: None or a list
NoErrors == [none |-> TRUE, entries |-> <<>>]

NoReq == [kind |-> "none", token |-> "", email |-> "", header |-> NoHeader,
          after_success |-> FALSE, after_failure |-> FALSE,
          game |-> NoGame, file |-> NoFile]

NoResponse == [req |-> NoReq, token_data |-> NoTokenData,
               status |-> 0, detail |-> "", email |-> "", jwt |-> NoJwt,
               claims |-> NoJwt, games_added |-> 0, errors |-> NoErrors]

\* the body of a response: what the handler returns or raises
Body(status, detail, email, jwt, claims) ==
    [status |-> status, detail |-> detail, email |-> email, jwt |-> jwt,
     claims |-> claims, games_added |-> 0, errors |-> NoErrors]

HTTPException(status, detail) == Body(status, detail, "", NoJwt, NoJwt)

\* App.current_user_info: {} or the body of GET /auth/me, of which the
\* client reads "authorizations"
NoUserInfo == [set |-> FALSE, authorizations |-> {}]

\* no request to GET /auth/me is in flight
NoMeRequest == [pending |-> FALSE, header |-> NoHeader]

\* what one run of show_section does beyond showing the section
NothingShown == [section |-> "", add_game_form |-> FALSE,
                 csv_upload_form |-> FALSE, load_users |-> FALSE]

\* ------------------------------------------------------ AuthService.__init__
AuthService_jwt_secret ==
    IF env.set THEN env.value ELSE DefaultJwtSecret

\* --------------------------------------------------- AuthDependencies.__init__
\* os.getenv without a default: None when unset.
AuthDependencies_jwt_secret == env

\* --------------------------------------------------------- DatabaseService
\* an INSERT that first empties the table
store_auth_token_Truncating(email, token, expires_at) ==
    [t \in Tokens |->
        IF t = token
        THEN [present |-> TRUE, email |-> email, created_at |-> now,
              expires_at |-> expires_at, used |-> FALSE, used_at |-> {}]
        ELSE NoRow]

store_auth_token(email, token, expires_at) ==
    [auth_links EXCEPT ![token] =
        [present |-> TRUE, email |-> email, created_at |-> now,
         expires_at |-> expires_at, used |-> FALSE, used_at |-> {}]]

\* the SELECT without its WHERE clause: the first row of the table
get_auth_token_AnyRow(token) ==
    IF \E t \in Tokens : auth_links[t].present
    THEN LET t == CHOOSE x \in Tokens : auth_links[x].present
         IN  [found |-> TRUE, email |-> auth_links[t].email,
              expires_at |-> auth_links[t].expires_at,
              used |-> auth_links[t].used]
    ELSE NoTokenData

get_auth_token(token) ==
    IF auth_links[token].present
    THEN [found |-> TRUE, email |-> auth_links[token].email,
          expires_at |-> auth_links[token].expires_at,
          used |-> auth_links[token].used]
    ELSE NoTokenData

\* the UPDATE setting used_at alone
mark_token_as_used_NoFlag(token) ==
    IF auth_links[token].present
    THEN [auth_links EXCEPT ![token].used_at = {now}]
    ELSE auth_links

mark_token_as_used(token) ==
    IF auth_links[token].present
    THEN [auth_links EXCEPT ![token].used = TRUE, ![token].used_at = {now}]
    ELSE auth_links

\* a lookup answering with a viewer's row where the table has none
get_user_by_email_DefaultViewer(email) ==
    IF email \in DOMAIN users /\ users[email].present THEN users[email]
    ELSE [present |-> TRUE, username |-> "",
          authorizations |-> StrAuth(<<"is_viewer">>)]

\* SELECT ... FROM users WHERE email = %s: None when no row matches
get_user_by_email(email) ==
    IF email \in DOMAIN users THEN users[email] ELSE NoUser

\* ----------------------------------------------------- str.split / str.strip
RECURSIVE Split(_, _)
\* s.split(sep): the pieces between the separators, empty pieces included
Split(s, sep) ==
    IF \E i \in 1..Len(s) : s[i] = sep
    THEN LET i == CHOOSE k \in 1..Len(s) :
                      s[k] = sep /\ \A j \in 1..(k - 1) : s[j] # sep
         IN  <<SubSeq(s, 1, i - 1)>> \o Split(SubSeq(s, i + 1, Len(s)), sep)
    ELSE <<s>>

RECURSIVE Strip(_)
Strip(s) ==
    IF s = <<>> THEN s
    ELSE IF Head(s) = " " THEN Strip(Tail(s))
    ELSE IF s[Len(s)] = " " THEN Strip(SubSeq(s, 1, Len(s) - 1))
    ELSE s

\* the keys without key.strip()
RoleKeys_NoStrip(authorizations) ==
    LET parts == Split(authorizations, ",")
    IN  { parts[i] : i \in 1..Len(parts) }

\* the keys create_jwt sets to True
RoleKeys(authorizations) ==
    LET parts == Split(authorizations, ",")
    IN  { Strip(parts[i]) : i \in 1..Len(parts) }

\* ------------------------------------------------------------ jwt.encode
\* the signature covers the payload; the encoder writes the unused bits as 0
jwt_encode(email, exp, iat, flags, secret) ==
    [present |-> TRUE, email |-> email, exp |-> exp, iat |-> iat,
     flags |-> flags, sig |-> secret,
     signed |-> [email |-> email, exp |-> exp, iat |-> iat, flags |-> flags],
     pad |-> 0]

\* jwt.decode's signature check: the HMAC of the payload segment received,
\* under secret, compared with the bytes base64url_decode yields for the
\* signature segment; urlsafe_b64decode drops the unused bits unread
SignatureValid(cred, secret) ==
    /\ cred.present
    /\ cred.sig = secret
    /\ cred.signed = Payload(cred)

\* the value True where a claim otherwise holds a string
PyTrue == "<True>"
\* the value True read as a time: int(True) is one second after the epoch,
\* before every reading of the clock
TrueAsTime == 0 - 1

\* AuthService.create_jwt: {ok, jwt}; not ok is the AttributeError of
\* None.split.  payload[key.strip()] = True of line 117 writes into the
\* dictionary that already holds email, exp and iat.
create_jwt(email, user_data) ==
    IF user_data.present /\ user_data.authorizations.null
    THEN [ok |-> FALSE, jwt |-> NoJwt]
    ELSE LET keys == IF user_data.present
                     THEN RoleKeys(user_data.authorizations.s)
                     ELSE {}
         IN  [ok |-> TRUE,
              jwt |-> jwt_encode(
                  IF <<"email">> \in keys THEN PyTrue ELSE email,
                  IF <<"exp">> \in keys THEN TrueAsTime
                  ELSE now + JwtExpiresInHours * 60,
                  IF <<"iat">> \in keys THEN TrueAsTime ELSE now,
                  keys,
                  AuthService_jwt_secret)]

\* AuthService.verify_jwt: {ok, detail, claims}; not ok is the ValueError
verify_jwt(token) ==
    IF ~SignatureValid(token, AuthService_jwt_secret)
    THEN [ok |-> FALSE, detail |-> "Invalid token", claims |-> NoJwt]
    ELSE IF token.exp <= now
    THEN [ok |-> FALSE, detail |-> "Token has expired", claims |-> NoJwt]
    ELSE [ok |-> TRUE, detail |-> "", claims |-> token]

\* ------------------------------------------------------------ verify_token
\* the comparison of line 85 turned round
TokenExpired_Reversed(token_expires_at) == now < token_expires_at

\* line 85
TokenExpired(token_expires_at) == now > token_expires_at

\* the expiry check placed before the used check
verify_token_checks_ExpiryFirst(td) ==
    IF ~td.found THEN "Invalid token"
    ELSE IF TokenExpired(td.expires_at) THEN "Token has expired"
    ELSE IF td.used THEN "Token has already been used"
    ELSE ""

\* the check of line 77 left out
verify_token_checks_NoLookupCheck(td) ==
    IF td.found /\ td.used THEN "Token has already been used"
    ELSE IF td.found /\ TokenExpired(td.expires_at) THEN "Token has expired"
    ELSE ""

\* lines 77-86: "" when every check passes, else the ValueError message
verify_token_checks(td) ==
    IF ~td.found THEN "Invalid token"
    ELSE IF td.used THEN "Token has already been used"
    ELSE IF TokenExpired(td.expires_at) THEN "Token has expired"
    ELSE ""

\* ------------------------------------------------- AuthDependencies
\* jwt.decode without the check of the exp claim
verify_jwt_token_NoExpiry(cred) ==
    IF ~AuthDependencies_jwt_secret.set \/ AuthDependencies_jwt_secret.value = ""
    THEN HTTPException(500, "JWT secret not configured")
    ELSE IF ~SignatureValid(cred, AuthDependencies_jwt_secret.value)
    THEN HTTPException(401, "Invalid token")
    ELSE Body(200, "", "", NoJwt, cred)

\* jwt.decode: signature first, then the exp claim
verify_jwt_token(cred) ==
    IF ~AuthDependencies_jwt_secret.set \/ AuthDependencies_jwt_secret.value = ""
    THEN HTTPException(500, "JWT secret not configured")
    ELSE IF ~SignatureValid(cred, AuthDependencies_jwt_secret.value)
    THEN HTTPException(401, "Invalid token")
    ELSE IF cred.exp <= now
    THEN HTTPException(401, "Token has expired")
    ELSE Body(200, "", "", NoJwt, cred)

\* line 55 answering yes for every claim set
HasEmail_Always(user) == TRUE

\* line 55: "email" in user
HasEmail(user) == user.email # ""

\* the header's text handed to verify_jwt_token before the checks of lines
\* 45-49
get_current_user_VerifyFirst(authorization) ==
    LET user == verify_jwt_token(authorization.cred)
    IN  IF user.status # 200 THEN user
        ELSE IF authorization.kind \in {"absent", "empty"}
        THEN HTTPException(401, "Not authenticated")
        ELSE IF authorization.kind # "bearer"
        THEN HTTPException(401, "Invalid authentication scheme")
        ELSE IF ~HasEmail(user.claims)
        THEN HTTPException(401, "Invalid token payload")
        ELSE user

\* a header is absent (None), the empty string, a text that does not start
\* with "Bearer " (kind "basic"), or "Bearer " followed by a credential
get_current_user(authorization) ==
    IF authorization.kind \in {"absent", "empty"}
    THEN HTTPException(401, "Not authenticated")
    ELSE IF authorization.kind # "bearer"
    THEN HTTPException(401, "Invalid authentication scheme")
    ELSE LET user == verify_jwt_token(authorization.cred)
         IN  IF user.status = 200 /\ ~HasEmail(user.claims)
             THEN HTTPException(401, "Invalid token payload")
             ELSE user

\* current_user.get(name, False): the keys of the claim set hold True
HasFlag(current_user, name) == <<name>> \in current_user.flags

\* contributor access granted to an admin as well
require_contributor_AdminImplies(current_user) ==
    IF ~(HasFlag(current_user, "is_contributor")
         \/ HasFlag(current_user, "is_admin"))
    THEN HTTPException(403, "Contributor access required")
    ELSE Body(200, "", "", NoJwt, current_user)

require_contributor(current_user) ==
    IF ~HasFlag(current_user, "is_contributor")
    THEN HTTPException(403, "Contributor access required")
    ELSE Body(200, "", "", NoJwt, current_user)

\* the role read from the users table instead of the claim set
require_admin_FromStore(current_user) ==
    LET row == get_user_by_email(current_user.email)
    IN  IF ~(row.present /\ ~row.authorizations.null
             /\ <<"is_admin">> \in RoleKeys(row.authorizations.s))
        THEN HTTPException(403, "Admin access required")
        ELSE Body(200, "", "", NoJwt, current_user)

require_admin(current_user) ==
    IF ~HasFlag(current_user, "is_admin")
    THEN HTTPException(403, "Admin access required")
    ELSE Body(200, "", "", NoJwt, current_user)

\* the role looked at before the header is authenticated
require_contributor_dependency_RoleFirst(authorization) ==
    LET refused == require_contributor(authorization.cred)
    IN  IF refused.status # 200 THEN refused
        ELSE get_current_user(authorization)

\* Depends(_get_current_user_dependency()) resolved first, the role check on
\* what it returns
require_contributor_dependency(authorization) ==
    LET current_user == get_current_user(authorization)
    IN  IF current_user.status # 200 THEN current_user
        ELSE require_contributor(current_user.claims)

require_admin_dependency(authorization) ==
    LET current_user == get_current_user(authorization)
    IN  IF current_user.status # 200 THEN current_user
        ELSE require_admin(current_user.claims)

\* AuthDependencies defines no _get_require_viewer_dependency: the attribute
\* lookup of main.py line 111 raises AttributeError, there is no viewer gate
\* and no request reaches get_games.
require_viewer_dependency(authorization) ==
    HTTPException(500, "AttributeError")

\* ------------------------------------------------------------------ Init
\* The state after startup_event: the tables exist and Initialize_users_table
\* has written its one user.
Init ==
    /\ env \in EnvValues
    /\ now = 0
    /\ ticks = 0
    /\ auth_links = [t \in Tokens |-> NoRow]
    /\ users = [e \in Emails |->
                  IF e = "marklesh@yahoo.com"
                  THEN [present |-> TRUE, username |-> "lesh",
                        authorizations |-> StrAuth(InitialAuthorizations)]
                  ELSE NoUser]
    /\ outbox = {}
    /\ games = <<>>
    /\ local_storage = NoJwt
    /\ current_user_info = NoUserInfo
    /\ me_request = NoMeRequest
    /\ location_hash = "home"
    /\ shown = NothingShown
    /\ client_jwt = NoJwt
    /\ pc = [w \in Workers |-> "idle"]
    /\ req = [w \in Workers |-> NoReq]
    /\ token_data = [w \in Workers |-> NoTokenData]
    /\ response = NoResponse
    /\ issued_for = [t \in Tokens |-> ""]
    /\ redeemed = [t \in Tokens |-> 0]
    /\ failed = [t \in Tokens |-> FALSE]

\* --------------------------------------------------------------- helpers
\* The handler of worker w, serving request r with local token_data td, ends
\* with the response body b.
Send(w, r, td, b) ==
    /\ response' = [req |-> r, token_data |-> td,
                    status |-> b.status, detail |-> b.detail, email |-> b.email,
                    jwt |-> b.jwt, claims |-> b.claims,
                    games_added |-> b.games_added, errors |-> b.errors]
    /\ UNCHANGED client_jwt
    /\ pc' = [pc EXCEPT ![w] = "idle"]
    /\ req' = [req EXCEPT ![w] = NoReq]
    /\ token_data' = [token_data EXCEPT ![w] = NoTokenData]

\* history: a redemption of token ends in failure
NoteFailure(token) ==
    failed' = [failed EXCEPT ![token] = @ \/ issued_for[token] # ""]

RequestLinkReq(email, token) ==
    [NoReq EXCEPT !.kind = "request-link", !.token = token, !.email = email]

VerifyLinkReq(token) ==
    [NoReq EXCEPT !.kind = "verify-link", !.token = token,
                  !.after_success = redeemed[token] > 0,
                  !.after_failure = failed[token]]

\* ------------------------------------------------------- AuthService
\* datetime.now() + timedelta(minutes=minutes)
get_token_expiration(minutes) == now + minutes

\* the token store after build_magic_link has stored token
build_magic_link(email, token, minutes) ==
    store_auth_token(email, token, get_token_expiration(minutes))

\* the values a caller of build_magic_link can pass as minutes
MinutesValues == {0 - MagicLinkMinutes, 0, MagicLinkMinutes}

\* a call of AuthService.build_magic_link(email, minutes) that returns; the
\* UNIQUE constraint on token lets the INSERT through for a new token only
BuildMagicLink(email, token, minutes) ==
    /\ ~auth_links[token].present
    /\ auth_links' = build_magic_link(email, token, minutes)
    /\ issued_for' = [issued_for EXCEPT ![token] = email]
    /\ response' = NoResponse
    /\ UNCHANGED <<client, games, env, now, ticks, users, outbox, client_jwt, pc, req,
                   token_data, redeemed, failed>>

\* ------------------------------------------------- POST /auth/request-link
\* build_magic_link: the INSERT commits
RequestLinkStore(w, email, token) ==
    /\ pc[w] = "idle"
    /\ ~auth_links[token].present
    /\ auth_links' = build_magic_link(email, token, MagicLinkMinutes)
    /\ issued_for' = [issued_for EXCEPT ![token] = email]
    /\ req' = [req EXCEPT ![w] = RequestLinkReq(email, token)]
    /\ pc' = [pc EXCEPT ![w] = "rl_built"]
    /\ response' = NoResponse
    /\ UNCHANGED <<client, games, env, now, ticks, users, outbox, client_jwt, token_data,
                   redeemed, failed>>

\* the INSERT committed and the failure reported all the same
RequestLinkStoreFails_AfterInsert(w, email, token) ==
    /\ pc[w] = "idle"
    /\ ~auth_links[token].present
    /\ auth_links' = store_auth_token(email, token, now + MagicLinkMinutes)
    /\ Send(w, RequestLinkReq(email, token), NoTokenData,
            HTTPException(500, "Database error"))
    /\ UNCHANGED <<client, games, env, now, ticks, users, outbox, issued_for, redeemed,
                   failed>>

\* build_magic_link raises (no connection, or the token is not UNIQUE)
RequestLinkStoreFails(w, email, token) ==
    /\ pc[w] = "idle"
    /\ Send(w, RequestLinkReq(email, token), NoTokenData,
            HTTPException(500, "Database error"))
    /\ UNCHANGED <<client, games, env, now, ticks, auth_links, users, outbox, issued_for,
                   redeemed, failed>>

\* send_auth_email: the SMTP server takes the message
RequestLinkSend(w) ==
    /\ pc[w] = "rl_built"
    /\ outbox' = outbox \cup {[to |-> req[w].email, token |-> req[w].token]}
    /\ Send(w, req[w], NoTokenData,
            Body(200, "Authentication link sent to your email", "", NoJwt, NoJwt))
    /\ UNCHANGED <<client, games, env, now, ticks, auth_links, users, issued_for, redeemed,
                   failed>>

\* the token withdrawn when its mail cannot be sent
RequestLinkSendFails_Withdraws(w) ==
    /\ pc[w] = "rl_built"
    /\ auth_links' = mark_token_as_used(req[w].token)
    /\ Send(w, req[w], NoTokenData, HTTPException(500, "Email sending failed"))
    /\ UNCHANGED <<client, games, env, now, ticks, users, outbox, issued_for, redeemed,
                   failed>>

\* send_auth_email raises
RequestLinkSendFails(w) ==
    /\ pc[w] = "rl_built"
    /\ Send(w, req[w], NoTokenData, HTTPException(500, "Email sending failed"))
    /\ UNCHANGED <<client, games, env, now, ticks, auth_links, users, outbox, issued_for,
                   redeemed, failed>>

\* -------------------------------------------------- GET /auth/verify-link
\* verify_token line 75: the SELECT answers
VerifyLookup(w, token) ==
    /\ pc[w] = "idle"
    /\ req' = [req EXCEPT ![w] = VerifyLinkReq(token)]
    /\ token_data' = [token_data EXCEPT ![w] = get_auth_token(token)]
    /\ pc' = [pc EXCEPT ![w] = "vl_looked"]
    /\ response' = NoResponse
    /\ UNCHANGED <<client, games, env, now, ticks, auth_links, users, outbox, client_jwt,
                   issued_for, redeemed, failed>>

\* verify_token line 75: get_auth_token raises
VerifyLookupFails(w, token) ==
    /\ pc[w] = "idle"
    /\ Send(w, VerifyLinkReq(token), NoTokenData,
            HTTPException(500, "Verification failed"))
    /\ NoteFailure(token)
    /\ UNCHANGED <<client, games, env, now, ticks, auth_links, users, outbox, issued_for,
                   redeemed>>

\* verify_token lines 77-86
VerifyCheck(w) ==
    /\ pc[w] = "vl_looked"
    /\ LET msg == verify_token_checks(token_data[w])
       IN  IF msg = ""
           THEN /\ pc' = [pc EXCEPT ![w] = "vl_checked"]
                /\ response' = NoResponse
                /\ UNCHANGED <<req, token_data, client_jwt, failed>>
           ELSE /\ Send(w, req[w], token_data[w], HTTPException(400, msg))
                /\ NoteFailure(req[w].token)
    /\ UNCHANGED <<client, games, env, now, ticks, auth_links, users, outbox, issued_for,
                   redeemed>>

\* verify_token line 89: the UPDATE commits
VerifyMark(w) ==
    /\ pc[w] = "vl_checked"
    /\ auth_links' = mark_token_as_used(req[w].token)
    /\ pc' = [pc EXCEPT ![w] = "vl_marked"]
    /\ response' = NoResponse
    /\ UNCHANGED <<client, games, env, now, ticks, users, outbox, client_jwt, req, token_data,
                   issued_for, redeemed, failed>>

\* verify_token line 89: mark_token_as_used raises
VerifyMarkFails(w) ==
    /\ pc[w] = "vl_checked"
    /\ Send(w, req[w], token_data[w], HTTPException(500, "Verification failed"))
    /\ NoteFailure(req[w].token)
    /\ UNCHANGED <<client, games, env, now, ticks, auth_links, users, outbox, issued_for,
                   redeemed>>

\* verify_token lines 92-93 and verify_auth_link lines 95-103
VerifyIssue(w) ==
    /\ pc[w] = "vl_marked"
    /\ LET r == create_jwt(token_data[w].email,
                           get_user_by_email(token_data[w].email))
       IN  IF r.ok
           THEN /\ Send(w, req[w], token_data[w],
                        Body(200, "Authentication successful",
                             token_data[w].email, r.jwt, NoJwt))
                /\ redeemed' = [redeemed EXCEPT ![req[w].token] =
                                   IF @ < 2 THEN @ + 1 ELSE @]
                /\ UNCHANGED failed
           ELSE /\ Send(w, req[w], token_data[w],
                        HTTPException(500, "Verification failed"))
                /\ NoteFailure(req[w].token)
                /\ UNCHANGED redeemed
    /\ UNCHANGED <<client, games, env, now, ticks, auth_links, users, outbox, issued_for>>

\* create_jwt line 107: get_user_by_email raises
VerifyIssueFails(w) ==
    /\ pc[w] = "vl_marked"
    /\ Send(w, req[w], token_data[w], HTTPException(500, "Verification failed"))
    /\ NoteFailure(req[w].token)
    /\ UNCHANGED <<client, games, env, now, ticks, auth_links, users, outbox, issued_for,
                   redeemed>>

\* ------------------------------------------------------------ GET /auth/me
\* the Authorization headers a client can send
Headers ==
    {NoHeader, [kind |-> "basic", cred |-> client_jwt],
     [kind |-> "bearer", cred |-> client_jwt]}

\* a request to a route that reads the Authorization header
GateReq(kind, authorization) ==
    [NoReq EXCEPT !.kind = kind, !.header = authorization]

\* the handler returns the claims get_current_user hands it
AuthMe(w, authorization) ==
    /\ pc[w] = "idle"
    /\ Send(w, GateReq("auth-me", authorization),
            NoTokenData, get_current_user(authorization))
    /\ UNCHANGED <<client, games, env, now, ticks, auth_links, users, outbox, issued_for,
                   redeemed, failed>>

\* --------------------------------------------------- role-gated routes
\* a credential no holder of the secret has signed
ForgedCredential ==
    [present |-> TRUE, email |-> ChangingUser,
     exp |-> now + JwtExpiresInHours * 60, iat |-> now,
     flags |-> {<<"is_contributor">>, <<"is_admin">>}, sig |-> "forged",
     signed |-> [email |-> ChangingUser,
                 exp |-> now + JwtExpiresInHours * 60, iat |-> now,
                 flags |-> {<<"is_contributor">>, <<"is_admin">>}],
     pad |-> 0]

\* a claim set without the email claim, signed with JWT_PRIVATE_KEY
NoEmailCredential ==
    [ForgedCredential EXCEPT !.email = "", !.signed.email = "",
                             !.sig = env.value]

\* the credential strings that differ from cred in one place: a claim of the
\* payload segment (the admin flag added or taken away), the bytes of the
\* signature, or the unused bits of the signature segment's last character
TamperedCredentials(cred) ==
    { [cred EXCEPT !.flags = IF <<"is_admin">> \in @
                             THEN @ \ {<<"is_admin">>}
                             ELSE @ \cup {<<"is_admin">>}],
      [cred EXCEPT !.sig = "tampered"] }
    \cup { [cred EXCEPT !.pad = p] : p \in PadValues \ {cred.pad} }

\* the Authorization headers of the requests to the gated routes
GateHeaders ==
    Headers \cup
    { [kind |-> "empty", cred |-> NoJwt],
      [kind |-> "bearer", cred |-> ForgedCredential],
      [kind |-> "bearer", cred |-> NoEmailCredential] }
    \cup IF client_jwt.present
         THEN { [kind |-> "bearer", cred |-> c] :
                   c \in TamperedCredentials(client_jwt) }
         ELSE {}

\* POST /tags: the handler body is pass
AddTag(w, authorization) ==
    /\ pc[w] = "idle"
    /\ Send(w, GateReq("add-tag", authorization), NoTokenData,
            require_contributor_dependency(authorization))
    /\ UNCHANGED <<client, games, env, now, ticks, auth_links, users, outbox, issued_for,
                   redeemed, failed>>

\* GET /admin/users: get_all_users answers
GetAllUsers(w, authorization) ==
    /\ pc[w] = "idle"
    /\ Send(w, GateReq("admin-users", authorization), NoTokenData,
            require_admin_dependency(authorization))
    /\ UNCHANGED <<client, games, env, now, ticks, auth_links, users, outbox, issued_for,
                   redeemed, failed>>

\* GET /admin/users: get_all_users raises
GetAllUsersFails(w, authorization) ==
    /\ pc[w] = "idle"
    /\ LET current_user == require_admin_dependency(authorization)
       IN  /\ current_user.status = 200
           /\ Send(w, GateReq("admin-users", authorization), NoTokenData,
                   Body(500, "Failed to retrieve users", "", NoJwt,
                        current_user.claims))
    /\ UNCHANGED <<client, games, env, now, ticks, auth_links, users, outbox, issued_for,
                   redeemed, failed>>

\* GET /games
GetGames(w, authorization) ==
    /\ pc[w] = "idle"
    /\ Send(w, GateReq("games", authorization), NoTokenData,
            require_viewer_dependency(authorization))
    /\ UNCHANGED <<client, games, env, now, ticks, auth_links, users, outbox, issued_for,
                   redeemed, failed>>

\* ------------------------------------------------------------ POST /games
\* a title of 256 characters: GameCreate rejects it, VARCHAR(255) rejects it
LongTitle == "<256 characters>"

\* the bodies GameCreate accepts: title of 1..255 characters, both player
\* counts at least 1
GameBodies ==
    { [title |-> "Catan", min_players |-> 1, max_players |-> 2],
      [title |-> "Catan", min_players |-> 3, max_players |-> 2] }

\* DatabaseService.add_game on the table tbl: the INSERT of a title longer
\* than the column raises psycopg2.DataError and is rolled back
add_game(tbl, title, min_players, max_players, contributor_email) ==
    IF title = LongTitle
    THEN [ok |-> FALSE, games |-> tbl]
    ELSE [ok |-> TRUE,
          games |-> Append(tbl, [title |-> title,
                                 min_players |-> min_players,
                                 max_players |-> max_players,
                                 contributor_email |-> contributor_email])]

\* "except Exception as e: raise HTTPException(500, ...)" around a handler
\* body: HTTPException is an Exception, so what the body raises is replaced
except_Exception(body, detail) ==
    IF body.status = 200 THEN body ELSE HTTPException(500, detail)

\* add_game of main.py after its gate: {body, games}
add_game_handler(current_user, game) ==
    LET inner ==
            IF game.min_players > game.max_players
            THEN [body |-> HTTPException(400,
                     "Minimum players cannot be greater than maximum players"),
                  games |-> games]
            ELSE LET r == add_game(games, game.title, game.min_players,
                                   game.max_players, current_user.claims.email)
                 IN  IF r.ok
                     THEN [body |-> Body(200, "Game added successfully", "",
                                         NoJwt, current_user.claims),
                           games |-> r.games]
                     ELSE [body |-> HTTPException(500, "DataError"),
                           games |-> games]
    IN  [body |-> except_Exception(inner.body, "Failed to add game"),
         games |-> inner.games]

\* POST /games: the gate, then the handler; the INSERT commits
AddGame(w, authorization, game) ==
    /\ pc[w] = "idle"
    /\ Len(games) < MaxGames
    /\ LET current_user == require_contributor_dependency(authorization)
           r == IF current_user.status # 200
                THEN [body |-> current_user, games |-> games]
                ELSE add_game_handler(current_user, game)
       IN  /\ Send(w, [GateReq("add-game", authorization) EXCEPT !.game = game],
                   NoTokenData, r.body)
           /\ games' = r.games
    /\ UNCHANGED <<client, env, now, ticks, auth_links, users, outbox, issued_for,
                   redeemed, failed>>

\* POST /games: get_connection raises in db_service.add_game
AddGameFails(w, authorization, game) ==
    /\ pc[w] = "idle"
    /\ LET current_user == require_contributor_dependency(authorization)
       IN  /\ current_user.status = 200
           /\ game.min_players <= game.max_players
           /\ Send(w, [GateReq("add-game", authorization) EXCEPT !.game = game],
                   NoTokenData, HTTPException(500, "Failed to add game"))
    /\ UNCHANGED <<client, games, env, now, ticks, auth_links, users, outbox,
                   issued_for, redeemed, failed>>

\* ------------------------------------------------- POST /games/upload-csv
\* a cell of a row shorter than the header: DictReader's restval
NoneCell == "<None>"

\* a title with a carriage return outside quotes: the reader, fed lines that
\* io.StringIO splits at "\n" only, raises csv.Error on the line
BareCrTitle == "Az<CR>ul"

\* int(cell): {exc, value}
int(cell) ==
    CASE cell = "1" -> [exc |-> "", value |-> 1]
      [] cell = "2" -> [exc |-> "", value |-> 2]
      [] cell = "3" -> [exc |-> "", value |-> 3]
      [] cell = NoneCell -> [exc |-> "TypeError", value |-> 0]
      [] OTHER -> [exc |-> "ValueError", value |-> 0]

\* the data rows a file can hold
CsvRows ==
    { [title |-> "Azul", min_players |-> "1", max_players |-> "2"],
      [title |-> "Azul", min_players |-> "3", max_players |-> "2"],
      [title |-> "Azul", min_players |-> "two", max_players |-> "2"],
      [title |-> "Azul", min_players |-> NoneCell, max_players |-> NoneCell],
      [title |-> LongTitle, min_players |-> "1", max_players |-> "2"],
      [title |-> BareCrTitle, min_players |-> "1", max_players |-> "2"] }

RequiredColumns == {"title", "owner", "min_players", "max_players"}

FileNames == { <<"games", ".csv">>, <<"games", ".txt">> }

\* str.endswith on a name given as stem and suffix
endswith(name, suffix) == Len(name) > 0 /\ name[Len(name)] = suffix

\* the files a client uploads: a well-named file with the required columns
\* and any rows, and one-row files with another name or without a column
CsvFiles ==
    { [filename |-> <<"games", ".csv">>, fieldnames |-> RequiredColumns,
       rows |-> r] : r \in UNION { [1..k -> CsvRows] : k \in 0..MaxRows } }
    \cup
    { [filename |-> n, fieldnames |-> c,
       rows |-> <<[title |-> "Azul", min_players |-> "1",
                   max_players |-> "2"]>>] :
         n \in FileNames,
         c \in {RequiredColumns, RequiredColumns \ {"owner"}} }

\* the loop of lines 227-255 from data row i on; acc is {games, games_added,
\* errors, raised}, raised being an exception of the for statement itself
RECURSIVE import_rows(_, _, _, _)
import_rows(rows, i, contributor_email, acc) ==
    IF i > Len(rows) THEN acc
    ELSE
    LET row == rows[i]
        row_num == i + 1
        min_players == int(row.min_players)
        max_players == int(row.max_players)
        error(message) ==
            [acc EXCEPT !.errors =
                Append(@, [row_num |-> row_num, message |-> message])]
    IN  IF row.title = BareCrTitle
        THEN [acc EXCEPT !.raised = TRUE]
        ELSE IF min_players.exc # ""
        THEN import_rows(rows, i + 1, contributor_email,
                         error(IF min_players.exc = "ValueError"
                               THEN "Invalid data format" ELSE "TypeError"))
        ELSE IF max_players.exc # ""
        THEN import_rows(rows, i + 1, contributor_email,
                         error(IF max_players.exc = "ValueError"
                               THEN "Invalid data format" ELSE "TypeError"))
        ELSE IF min_players.value > max_players.value
        THEN import_rows(rows, i + 1, contributor_email,
                 error("min_players cannot be greater than max_players"))
        ELSE LET r == add_game(acc.games, row.title, min_players.value,
                               max_players.value, contributor_email)
             IN  IF r.ok
                 THEN import_rows(rows, i + 1, contributor_email,
                          [acc EXCEPT !.games = r.games,
                                      !.games_added = @ + 1])
                 ELSE import_rows(rows, i + 1, contributor_email,
                                  error("DataError"))

\* upload_games_csv after its gate: {body, games}
upload_games_csv(current_user, file) ==
    LET inner ==
            IF ~endswith(file.filename, ".csv")
            THEN [body |-> HTTPException(400, "File must be a CSV"),
                  games |-> games]
            ELSE IF ~(RequiredColumns \subseteq file.fieldnames)
            THEN [body |-> HTTPException(400, "CSV must contain columns"),
                  games |-> games]
            ELSE LET r == import_rows(file.rows, 1, current_user.claims.email,
                                      [games |-> games, games_added |-> 0,
                                       errors |-> <<>>, raised |-> FALSE])
                 IN  IF r.raised
                     THEN [body |-> HTTPException(500, "csv.Error"),
                           games |-> r.games]
                     ELSE [body |->
                              [Body(200, "CSV processed successfully", "",
                                    NoJwt, current_user.claims)
                                 EXCEPT !.games_added = r.games_added,
                                        !.errors =
                                            IF r.errors = <<>> THEN NoErrors
                                            ELSE [none |-> FALSE,
                                                  entries |-> r.errors]],
                           games |-> r.games]
    IN  [body |-> except_Exception(inner.body, "Failed to process CSV"),
         games |-> inner.games]

\* POST /games/upload-csv: the gate, then the handler; every INSERT commits
\* on its own
UploadGamesCsv(w, authorization, file) ==
    /\ pc[w] = "idle"
    /\ Len(games) + Len(file.rows) <= MaxGames
    /\ LET current_user == require_contributor_dependency(authorization)
           r == IF current_user.status # 200
                THEN [body |-> current_user, games |-> games]
                ELSE upload_games_csv(current_user, file)
       IN  /\ Send(w, [GateReq("upload-csv", authorization)
                          EXCEPT !.file = file],
                   NoTokenData, r.body)
           /\ games' = r.games
    /\ UNCHANGED <<client, env, now, ticks, auth_links, users, outbox, issued_for,
                   redeemed, failed>>

\* ------------------------------------------------------- DatabaseService
\* INSERT ... ON CONFLICT (email) DO UPDATE; a username another row holds
\* breaks the UNIQUE constraint of the column and the statement is rolled back
upsert_user(username, email, authorizations) ==
    /\ \A e \in Emails \ {email} :
          ~(users[e].present /\ users[e].username = username)
    /\ users' = [users EXCEPT ![email] =
                    [present |-> TRUE, username |-> username,
                     authorizations |-> authorizations]]
    /\ response' = NoResponse
    /\ UNCHANGED <<client, games, env, now, ticks, auth_links, outbox, client_jwt, pc, req,
                   token_data, issued_for, redeemed, failed>>

update_user_authorizations(email, authorizations) ==
    /\ users[email].present
    /\ users' = [users EXCEPT ![email].authorizations = authorizations]
    /\ response' = NoResponse
    /\ UNCHANGED <<client, games, env, now, ticks, auth_links, outbox, client_jwt, pc, req,
                   token_data, issued_for, redeemed, failed>>

\* -------------------------------------------------------- browser client
\* the sections of the page
Sections == {"home", "games", "admin"}

\* key.startswith('is_') over the claim names of the model
startswith_is(key) == key \in {<<"is_admin">>, <<"is_contributor">>, <<"is_viewer">>}

\* the body of GET /auth/me for the claims the gate hands the handler
auth_me_body(claims) ==
    [set |-> TRUE, authorizations |-> {k \in claims.flags : startswith_is(k)}]

\* App.logged_in
logged_in == local_storage.present

\* App.show_section(section_id) for a section of the page, reading info as
\* self.current_user_info
show_section(info, section_id) ==
    [section |-> section_id,
     load_users |-> /\ section_id = "admin"
                    /\ info.set
                    /\ <<"is_admin">> \in info.authorizations,
     add_game_form |-> /\ section_id = "games"
                       /\ info.set
                       /\ <<"is_contributor">> \in info.authorizations,
     csv_upload_form |-> /\ section_id = "games"
                         /\ info.set
                         /\ <<"is_contributor">> \in info.authorizations]

\* The page opened from the magic link keeps the credential of the
\* redemption under "auth_token".
StoreCredential(e) ==
    /\ local_storage' = create_jwt(e, get_user_by_email(e)).jwt
    /\ local_storage'.present
    /\ shown' = NothingShown
    /\ UNCHANGED <<current_user_info, me_request, location_hash>>
    /\ UNCHANGED backend

\* App.__init__: a page load; get_current_user_info sends its request with
\* the stored credential, handle_navigation runs before the answer
PageLoad(hash) ==
    /\ current_user_info' = NoUserInfo
    /\ me_request' = [pending |-> TRUE,
                      header |-> [kind |-> "bearer", cred |-> local_storage]]
    /\ location_hash' = hash
    /\ shown' = show_section(NoUserInfo, hash)
    /\ UNCHANGED local_storage
    /\ UNCHANGED backend

\* on_complete of get_current_user_info
MeComplete ==
    /\ me_request.pending
    /\ me_request' = NoMeRequest
    /\ LET r == get_current_user(me_request.header)
       IN  IF r.status = 200
           THEN /\ current_user_info' = auth_me_body(r.claims)
                /\ shown' = show_section(auth_me_body(r.claims),
                                         location_hash)
           ELSE /\ current_user_info' = NoUserInfo
                /\ shown' = NothingShown
    /\ UNCHANGED <<local_storage, location_hash>>
    /\ UNCHANGED backend

\* the hashchange handler: handle_navigation, then show_section
HashChange(hash) ==
    /\ hash # location_hash
    /\ location_hash' = hash
    /\ shown' = show_section(current_user_info, hash)
    /\ UNCHANGED <<local_storage, current_user_info, me_request>>
    /\ UNCHANGED backend

\* App.handle_logout: both items removed, location set to /#home,
\* handle_navigation
handle_logout ==
    /\ local_storage' = NoJwt
    /\ location_hash' = "home"
    /\ shown' = show_section(current_user_info, "home")
    /\ UNCHANGED <<current_user_info, me_request>>
    /\ UNCHANGED backend

\* ----------------------------------------------------------------- clock
Tick(d) ==
    /\ ticks < MaxTicks
    /\ now' = now + d
    /\ ticks' = ticks + 1
    /\ response' = NoResponse
    /\ UNCHANGED <<client, games, env, auth_links, users, outbox, client_jwt, pc, req,
                   token_data, issued_for, redeemed, failed>>

\* --------------------------------------------------------------- client
\* The client keeps the credential of the response it has just received.
ClientKeeps ==
    /\ response.jwt.present
    /\ client_jwt' = response.jwt
    /\ response' = NoResponse
    /\ UNCHANGED <<client, games, env, now, ticks, auth_links, users, outbox, pc, req,
                   token_data, issued_for, redeemed, failed>>

\* ------------------------------------------------------ magic-link flow
\* The steps of the two magic-link endpoints, for requests served by the
\* workers ws, with build_magic_link drawing its token from ts.
LinkNext(ws, ts) ==
    \/ \E w \in ws, e \in Emails, t \in ts : RequestLinkStore(w, e, t)
    \/ \E w \in ws, e \in Emails, t \in ts : RequestLinkStoreFails(w, e, t)
    \/ \E w \in ws : RequestLinkSend(w)
    \/ \E w \in ws : RequestLinkSendFails(w)
    \/ \E w \in ws, t \in Tokens : VerifyLookup(w, t)
    \/ \E w \in ws, t \in Tokens : VerifyLookupFails(w, t)
    \/ \E w \in ws : VerifyCheck(w)
    \/ \E w \in ws : VerifyMark(w)
    \/ \E w \in ws : VerifyMarkFails(w)
    \/ \E w \in ws : VerifyIssue(w)
    \/ \E w \in ws : VerifyIssueFails(w)

\* Concurrent redemption: two requests in flight, one token string issued
\* (the other is never in the store), the clock moving by magic-link windows.
Next ==
    \/ LinkNext(Workers, {"tokA"})
    \/ Tick(MagicLinkMinutes)

Spec == Init /\ [][Next]_vars

\* Two token strings, one request at a time, within one magic-link window.
TwoTokenNext == LinkNext({"w1"}, Tokens)

TwoTokenSpec == Init /\ [][TwoTokenNext]_vars

\* One request at a time on one token string, with the record of one user
\* changing, the client keeping its credential and presenting it, and the
\* clock reaching the credential's expiry.
SessionNext ==
    \/ LinkNext({"w1"}, {"tokA"})
    \/ \E h \in Headers : AuthMe("w1", h)
    \/ ClientKeeps
    \/ \E u \in Usernames, a \in AuthValues : upsert_user(u, ChangingUser, a)
    \/ \E a \in AuthStrings : update_user_authorizations(ChangingUser, StrAuth(a))
    \/ \E d \in TickSizes : Tick(d)

SessionSpec == Init /\ [][SessionNext]_vars

\* One request at a time on one token string and on the gated routes, with
\* any header, the record of one user changing, within one credential
\* horizon.
GateNext ==
    \/ LinkNext({"w1"}, {"tokA"})
    \/ \E h \in GateHeaders : AuthMe("w1", h)
    \/ \E h \in GateHeaders : AddTag("w1", h)
    \/ \E h \in GateHeaders : GetAllUsers("w1", h)
    \/ \E h \in GateHeaders : GetAllUsersFails("w1", h)
    \/ \E h \in GateHeaders : GetGames("w1", h)
    \/ ClientKeeps
    \/ \E u \in Usernames, a \in GateAuthValues :
           upsert_user(u, ChangingUser, a)
    \/ \E a \in GateAuthStrings :
           update_user_authorizations(ChangingUser, StrAuth(a))

GateSpec == Init /\ [][GateNext]_vars

\* The Magic Link Issuer called with any window, redemptions of what it
\* stored by one request at a time, and the clock.
IssuerNext ==
    \/ \E e \in Emails, t \in Tokens, m \in MinutesValues :
           BuildMagicLink(e, t, m)
    \/ \E t \in Tokens : VerifyLookup("w1", t)
    \/ VerifyCheck("w1")
    \/ VerifyMark("w1")
    \/ VerifyIssue("w1")
    \/ Tick(MagicLinkMinutes)

IssuerSpec == Init /\ [][IssuerNext]_vars

\* the Authorization headers of a client that has none, or that has logged
\* in as e and sends the credential verify_auth_link returned
LoginHeaders ==
    {NoHeader} \cup
    { [kind |-> "bearer", cred |-> create_jwt(e, get_user_by_email(e)).jwt] :
         e \in Emails }

\* One request at a time on the two routes that write table games.
GamesNext ==
    \/ \E h \in LoginHeaders, g \in GameBodies : AddGame("w1", h, g)
    \/ \E h \in LoginHeaders, g \in GameBodies : AddGameFails("w1", h, g)
    \/ \E h \in LoginHeaders, f \in CsvFiles : UploadGamesCsv("w1", h, f)

GamesSpec == Init /\ [][GamesNext]_vars

\* The browser client: logins, page loads, navigation and logout.
ClientNext ==
    \/ \E e \in Emails : StoreCredential(e)
    \/ \E h \in Sections : PageLoad(h)
    \/ MeComplete
    \/ \E h \in Sections : HashChange(h)
    \/ handle_logout

ClientSpec == Init /\ [][ClientNext]_vars

\* ======================================================================
\* Claims
\* ======================================================================

\* the token of the redemption the response answers
RedeemResponse == response.req.kind = "verify-link"
RedeemSuccess == RedeemResponse /\ response.status = 200
RedeemError(msg) ==
    RedeemResponse /\ response.status = 400 /\ response.detail = msg

\* worker w takes the step of verify_token lines 77-86
CheckStep(w) == pc[w] = "vl_looked" /\ pc'[w] # "vl_looked"

\* C1: a redemption of T that begins after a redemption of T has succeeded
\* never succeeds, and whenever its lookup answers it fails with 400 'Token
\* has already been used' (of calls that do not overlap, at most one succeeds).
C1_RedeemAtMostOnce ==
    (RedeemResponse /\ response.req.after_success) =>
        /\ response.status # 200
        /\ response.token_data.found =>
               RedeemError("Token has already been used")

C1_Witness ==
    /\ response.req.after_success
    /\ RedeemError("Token has already been used")

\* C2: no token is ever redeemed successfully twice, however the SELECTs and
\* UPDATEs of concurrent redemptions interleave.
C2_NoDoubleRedemption == \A t \in Tokens : redeemed[t] <= 1

\* C3: a redemption that looked up a stored token, and makes its checks when
\* the token is unused and its expires_at is before the current time, ends
\* there with 400 'Token has expired', no credential and the store unchanged.
C3_ExpiredRejected ==
    [][\A w \in Workers :
         ( /\ CheckStep(w)
           /\ token_data[w].found
           /\ ~auth_links[req[w].token].used
           /\ auth_links[req[w].token].expires_at < now )
         => /\ pc'[w] = "idle"
            /\ response'.status = 400
            /\ response'.detail = "Token has expired"
            /\ ~response'.jwt.present
            /\ auth_links' = auth_links]_vars

C3_Witness ==
    /\ RedeemError("Token has expired")
    /\ ~auth_links[response.req.token].used
    /\ auth_links[response.req.token].used_at = {}

\* C4: a successful redemption returns the email the token was issued for,
\* and a credential whose email claim is that email.
C4_EmailOfToken ==
    RedeemSuccess =>
        /\ response.email = issued_for[response.req.token]
        /\ response.jwt.present
        /\ response.jwt.email = issued_for[response.req.token]

C4_Witness ==
    /\ RedeemSuccess
    /\ \E t \in Tokens : issued_for[t] \notin {"", response.email}

\* C5: a token is marked used only by a redemption that goes on to return a
\* credential: a used token has a successful redemption, or the redemption
\* that marked it is still about to issue.
C5_UsedOnlyWithCredential ==
    \A t \in Tokens :
        auth_links[t].used =>
            \/ redeemed[t] > 0
            \/ \E w \in Workers : pc[w] = "vl_marked" /\ req[w].token = t

\* C6: a redemption of an issued token that begins after a redemption of
\* that token has failed does not succeed.
C6_FailureIsFinal ==
    RedeemResponse /\ response.req.after_failure => response.status # 200

\* C7: a redemption whose lookup found the used flag true fails with 400
\* 'Token has already been used', also when the token is expired as well.
C7_UsedBeforeExpired ==
    (RedeemResponse /\ response.token_data.found /\ response.token_data.used)
        => RedeemError("Token has already been used")

C7_Witness ==
    /\ RedeemError("Token has already been used")
    /\ response.token_data.used
    /\ now > response.token_data.expires_at

\* C8: a redemption whose lookup finds no record ends at its checks with 400
\* 'Invalid token', no credential and the store unchanged, and never reaches
\* the UPDATE.
C8_UnknownTokenRejected ==
    /\ [](\A w \in Workers :
            pc[w] \in {"vl_checked", "vl_marked"} => token_data[w].found)
    /\ [][\A w \in Workers :
            (CheckStep(w) /\ ~token_data[w].found)
            => /\ pc'[w] = "idle"
               /\ response'.status = 400
               /\ response'.detail = "Invalid token"
               /\ ~response'.jwt.present
               /\ auth_links' = auth_links]_vars

C8_Witness ==
    /\ RedeemError("Invalid token")
    /\ ~auth_links[response.req.token].present

\* C9: a credential returned by a successful redemption and presented as a
\* Bearer header before its expiry is accepted by get_current_user, whether
\* JWT_PRIVATE_KEY is set or not.
C9_IssuedCredentialAccepted ==
    ( /\ response.req.kind = "auth-me"
      /\ response.req.header.kind = "bearer"
      /\ response.req.header.cred.present
      /\ now < response.req.header.cred.exp )
    => response.status = 200

\* C10: with no JWT_PRIVATE_KEY configured no credential is issued, and no
\* credential is ever signed with the built-in default secret.
C10_NoDefaultSecret ==
    response.jwt.present =>
        env.set /\ response.jwt.sig # DefaultJwtSecret

\* C11: the claim set decoded (verify_jwt) from the credential of a successful
\* redemption has an email claim equal to the email create_jwt was called
\* with, whatever authorization string is stored for that user.
C11_SubjectRoundTrip ==
    RedeemSuccess =>
        LET decoded == verify_jwt(response.jwt)
        IN  /\ decoded.ok
            /\ decoded.claims.email = response.token_data.email

\* the response answers a request to the route named kind, and the header
\* of that request passes get_current_user
Authenticated(kind) ==
    /\ response.req.kind = kind
    /\ get_current_user(response.req.header).status = 200

\* C12: on a request that is authenticated, require_contributor (POST /tags)
\* hands the handler the claim set unchanged exactly when the claim set holds
\* is_contributor, and answers 403 otherwise; require_admin (GET
\* /admin/users) does the same on is_admin alone.  Neither role stands in
\* for the other.
C12_GateOnOwnFlag ==
    LET current_user == response.req.header.cred
    IN  /\ Authenticated("add-tag") =>
               IF <<"is_contributor">> \in current_user.flags
               THEN response.status = 200 /\ response.claims = current_user
               ELSE /\ response.status = 403
                    /\ response.detail = "Contributor access required"
                    /\ ~response.claims.present
        /\ Authenticated("admin-users") =>
               IF <<"is_admin">> \in current_user.flags
               THEN response.status # 403 /\ response.claims = current_user
               ELSE /\ response.status = 403
                    /\ response.detail = "Admin access required"
                    /\ ~response.claims.present

C12_Witness ==
    /\ Authenticated("add-tag")
    /\ <<"is_admin">> \in response.req.header.cred.flags
    /\ <<"is_contributor">> \notin response.req.header.cred.flags
    /\ response.status = 403

\* the other direction of C12's independence: a contributor who is no admin
\* is refused by require_admin
C12_ContributorIsNoAdmin ==
    /\ Authenticated("admin-users")
    /\ <<"is_contributor">> \in response.req.header.cred.flags
    /\ <<"is_admin">> \notin response.req.header.cred.flags
    /\ response.status = 403

\* C13: a request presenting a credential whose exp has been reached is never
\* accepted, and when the credential carries the signature of the configured
\* secret it is answered 401 'Token has expired': verification checks exp on
\* every request, so no credential is accepted after its expiry.
C13_ExpiryEnforced ==
    LET cred == response.req.header.cred
    IN  ( /\ response.req.kind = "auth-me"
          /\ response.req.header.kind = "bearer"
          /\ cred.present
          /\ cred.exp <= now )
        => /\ response.status # 200
           /\ ( /\ env.set
                /\ cred.sig = env.value
                /\ cred.signed = Payload(cred) ) =>
                  /\ response.status = 401
                  /\ response.detail = "Token has expired"

C13_Witness ==
    /\ response.req.kind = "auth-me"
    /\ response.req.header.cred.present
    /\ response.req.header.cred.exp <= now
    /\ response.req.header.cred.iat < now
    /\ response.status = 401
    /\ response.detail = "Token has expired"

\* what each gate answers to a request with the header authorization
GateOutcome(authorization) ==
    <<get_current_user(authorization),
      require_contributor_dependency(authorization),
      require_admin_dependency(authorization)>>

\* C14: a step that changes the users table (upsert_user,
\* update_user_authorizations) changes the outcome of no gate for any header
\* a client can send: the gates read the flags encoded in the credential at
\* issuance, never the stored authorization string.
C14_ClaimSetIsSnapshot ==
    [][users' # users =>
          \A h \in GateHeaders : GateOutcome(h)' = GateOutcome(h)]_vars

\* an unexpired credential issued with is_admin passes require_admin after
\* the user's stored string has lost is_admin
C14_Witness ==
    /\ response.req.kind = "admin-users"
    /\ response.status = 200
    /\ now < response.claims.exp
    /\ <<"is_admin">> \in response.claims.flags
    /\ LET row == get_user_by_email(response.claims.email)
       IN  \/ row.authorizations.null
           \/ <<"is_admin">> \notin RoleKeys(row.authorizations.s)

\* the pieces of s between its commas, by position: s[i..j] is a piece when
\* it holds no comma and is bounded by commas or the ends of s
Pieces(s) ==
    { SubSeq(s, p[1], p[2]) : p \in
        { q \in (1..(Len(s) + 1)) \X (0..Len(s)) :
            /\ q[2] >= q[1] - 1
            /\ \A k \in q[1]..q[2] : s[k] # ","
            /\ q[1] = 1 \/ s[q[1] - 1] = ","
            /\ q[2] = Len(s) \/ s[q[2] + 1] = "," } }

\* piece without the blanks at its ends
Trimmed(piece) ==
    IF \A k \in 1..Len(piece) : piece[k] = " " THEN <<>>
    ELSE LET first == CHOOSE i \in 1..Len(piece) :
                         piece[i] # " " /\ \A k \in 1..(i - 1) : piece[k] = " "
             last == CHOOSE j \in 1..Len(piece) :
                         piece[j] # " "
                         /\ \A k \in (j + 1)..Len(piece) : piece[k] = " "
         IN  SubSeq(piece, first, last)

\* C15: the keys a credential holds as true are exactly the pieces between
\* the commas of the authorization string stored for its user when it was
\* issued, each without the blanks at its ends, whether a gate knows the name
\* or not.
C15_FlagsAreTheTokens ==
    RedeemSuccess =>
        LET row == get_user_by_email(response.token_data.email)
        IN  (row.present /\ ~row.authorizations.null) =>
               response.jwt.flags =
                  { Trimmed(piece) : piece \in Pieces(row.authorizations.s) }

C15_Witness ==
    /\ RedeemSuccess
    /\ <<"vip">> \in response.jwt.flags
    /\ <<"is_contributor">> \in response.jwt.flags
    /\ Cardinality(response.jwt.flags) = 2

\* C16: for an email with no row in users, create_jwt succeeds with a claim
\* set of that email, iat = now, exp = now + 24 h and no key set to true; a
\* redemption for such an email returns that credential; and both role
\* gates answer 403 to it.
C16_NoRecordNoRoles ==
    /\ \A e \in Emails :
          ~users[e].present =>
             LET r == create_jwt(e, get_user_by_email(e))
             IN  /\ r.ok
                 /\ r.jwt.present
                 /\ r.jwt.email = e
                 /\ r.jwt.iat = now
                 /\ r.jwt.exp = now + JwtExpiresInHours * 60
                 /\ r.jwt.flags = {}
                 /\ require_contributor(r.jwt).status = 403
                 /\ require_admin(r.jwt).status = 403
    /\ (RedeemSuccess /\ ~users[response.token_data.email].present) =>
          /\ response.jwt.email = response.token_data.email
          /\ response.jwt.flags = {}
    /\ \A kind \in {"add-tag", "admin-users"} :
          (Authenticated(kind) /\ response.req.header.cred.flags = {})
              => response.status = 403

C16_Witness ==
    /\ Authenticated("admin-users")
    /\ response.req.header.cred.flags = {}
    /\ response.req.header.cred.email = ChangingUser
    /\ ~users[ChangingUser].present
    /\ response.status = 403

\* the credential passes jwt.decode under the configured secret and holds
\* the email claim
Verifies(cred) ==
    /\ cred.present
    /\ env.set
    /\ cred.sig = env.value
    /\ cred.signed = Payload(cred)
    /\ now < cred.exp
    /\ cred.email # ""

\* the key the gate of the route asks for
RequiredFlag(kind) ==
    IF kind = "add-tag" THEN <<"is_contributor">> ELSE <<"is_admin">>

\* C17: on POST /tags and GET /admin/users a request without a header, with
\* an empty or non-Bearer header, or (the secret being configured) with a
\* credential that does not verify is answered 401; no request that is not
\* authenticated is answered 403; and 403 answers only a request whose
\* credential verified and lacks the flag of the route.
C17_AuthenticationBeforeRole ==
    response.req.kind \in {"add-tag", "admin-users"} =>
        LET h == response.req.header
            authenticated == h.kind = "bearer" /\ Verifies(h.cred)
        IN  /\ h.kind # "bearer" => response.status = 401
            /\ (h.kind = "bearer" /\ env.set /\ ~Verifies(h.cred))
                   => response.status = 401
            /\ ~authenticated => response.status # 403
            /\ response.status = 403 =>
                   /\ authenticated
                   /\ RequiredFlag(response.req.kind) \notin h.cred.flags

\* a Bearer credential that does not verify and holds no role either is
\* answered 401
C17_Witness ==
    /\ response.req.kind = "add-tag"
    /\ response.req.header.kind = "bearer"
    /\ env.set
    /\ ~Verifies(response.req.header.cred)
    /\ <<"is_contributor">> \notin response.req.header.cred.flags
    /\ response.status = 401

\* C18: GET /games is gated on the viewer role: a request whose credential
\* verifies is answered 403 when the claim set lacks is_viewer, and is let
\* through to the handler with its claim set when it holds is_viewer.
C18_ViewerGate ==
    ( /\ response.req.kind = "games"
      /\ response.req.header.kind = "bearer"
      /\ Verifies(response.req.header.cred) )
    => IF <<"is_viewer">> \in response.req.header.cred.flags
       THEN response.claims = response.req.header.cred
       ELSE response.status = 403

\* the routes whose dependency is, or starts with, get_current_user
AuthenticatedRoutes == {"auth-me", "add-tag", "admin-users"}

\* C19: a request whose Authorization header is absent or empty is answered
\* 401 'Not authenticated', and one whose header does not start with
\* 'Bearer ' is answered 401 'Invalid authentication scheme', whatever the
\* header holds otherwise and also where verify_jwt_token would raise: the
\* credential is not handed to verification.
C19_HeaderCheckedFirst ==
    response.req.kind \in AuthenticatedRoutes =>
        /\ response.req.header.kind \in {"absent", "empty"} =>
               /\ response.status = 401
               /\ response.detail = "Not authenticated"
        /\ response.req.header.kind = "basic" =>
               /\ response.status = 401
               /\ response.detail = "Invalid authentication scheme"
        /\ response.req.header.kind # "bearer" => ~response.claims.present

\* a header of another scheme holding a credential that would verify
C19_Witness ==
    /\ response.req.kind \in AuthenticatedRoutes
    /\ response.req.header.kind = "basic"
    /\ Verifies(response.req.header.cred)
    /\ response.status = 401
    /\ response.detail = "Invalid authentication scheme"

\* a request without a header where verify_jwt_token would answer 500
C19_NoSecretWitness ==
    /\ response.req.kind \in AuthenticatedRoutes
    /\ response.req.header.kind \in {"absent", "empty"}
    /\ ~env.set
    /\ response.status = 401

\* C20: a credential signed with the configured secret and not expired whose
\* claim set has no email is answered 401 'Invalid token payload'; every claim
\* set a gate hands to a handler holds an email claim.
C20_EmailClaimRequired ==
    response.req.kind \in AuthenticatedRoutes =>
        LET cred == response.req.header.cred
        IN  /\ ( /\ response.req.header.kind = "bearer"
                  /\ cred.present
                  /\ env.set /\ cred.sig = env.value
                  /\ cred.signed = Payload(cred)
                  /\ now < cred.exp
                  /\ cred.email = "" )
                => /\ response.status = 401
                   /\ response.detail = "Invalid token payload"
            /\ response.claims.present => response.claims.email # ""

C20_Witness ==
    /\ response.req.kind = "admin-users"
    /\ response.req.header.cred.present
    /\ response.req.header.cred.email = ""
    /\ <<"is_admin">> \in response.req.header.cred.flags
    /\ response.status = 401
    /\ response.detail = "Invalid token payload"

\* C21: with the secret configured, a Bearer credential that differs in one
\* place (payload, signature bytes, or last signature character) from the
\* credential the service issued is answered 401 'Invalid token' and no
\* claim set reaches a handler.
C21_TamperRejected ==
    ( /\ response.req.kind \in AuthenticatedRoutes
      /\ response.req.header.kind = "bearer"
      /\ env.set
      /\ SignatureValid(client_jwt, env.value)
      /\ response.req.header.cred \in TamperedCredentials(client_jwt) )
    => /\ response.status = 401
       /\ response.detail = "Invalid token"
       /\ ~response.claims.present

\* C22: a POST /auth/request-link whose token-store write fails is answered
\* 500 with no credential, and its handler leaves the token store and the
\* mails sent as they were; no mail is ever sent for a token that is not in
\* the store under the addressee's email.
C22_StoreFailureLeavesNothing ==
    /\ [](\A m \in outbox :
            /\ auth_links[m.token].present
            /\ auth_links[m.token].email = m.to)
    /\ [][( /\ response'.req.kind = "request-link"
            /\ response'.detail = "Database error" )
          => /\ response'.status = 500
             /\ ~response'.jwt.present
             /\ auth_links' = auth_links
             /\ outbox' = outbox]_vars

C22_Witness ==
    /\ response.req.kind = "request-link"
    /\ response.status = 500
    /\ response.detail = "Database error"
    /\ ~auth_links[response.req.token].present
    /\ \A m \in outbox : m.token # response.req.token

\* no mail for token has been sent and none is about to be
Undelivered(token) ==
    /\ auth_links[token].present
    /\ \A m \in outbox : m.token # token
    /\ \A w \in Workers : ~(pc[w] = "rl_built" /\ req[w].token = token)

\* C23: a POST /auth/request-link whose mail cannot be sent is answered 500
\* and leaves the record it stored in the store, untouched, under the email
\* asked for and with the full window; a redemption that finds such a record
\* unused and not expired passes its checks like any other.
C23_PersistThenNotify ==
    /\ [][( /\ response'.req.kind = "request-link"
            /\ response'.detail = "Email sending failed" )
          => /\ response'.status = 500
             /\ auth_links' = auth_links
             /\ outbox' = outbox
             /\ LET row == auth_links'[response'.req.token]
                IN  /\ row.present
                    /\ row.email = response'.req.email
                    /\ row.expires_at = row.created_at + MagicLinkMinutes]_vars
    /\ [][\A w \in Workers :
            ( /\ CheckStep(w)
              /\ Undelivered(req[w].token)
              /\ token_data[w].found
              /\ ~token_data[w].used
              /\ now <= token_data[w].expires_at )
            => pc'[w] = "vl_checked"]_vars

\* a token whose mail was never sent is redeemed within its window
C23_Witness ==
    /\ RedeemSuccess
    /\ Undelivered(response.req.token)
    /\ now <= auth_links[response.req.token].expires_at

\* C24: every record of the token store expires strictly after it was
\* created, whatever minutes build_magic_link was called with.
C24_ExpiryAfterCreation ==
    \A t \in Tokens :
        auth_links[t].present =>
            auth_links[t].expires_at > auth_links[t].created_at

\* C25: a record of the token store whose used flag is set is never changed
\* again: used stays TRUE and used_at keeps the time of the redemption.
C25_UsedRecordFrozen ==
    [][\A t \in Tokens :
          (auth_links[t].present /\ auth_links[t].used)
              => auth_links'[t] = auth_links[t]]_vars

\* C26: a call of build_magic_link that returns adds exactly one record, under
\* a token no record held, with the email of the call and used = FALSE, and
\* changes no other record; no step removes a record.
C26_OneNewRecord ==
    /\ [][(issued_for' # issued_for) =>
            \E t \in Tokens :
                /\ ~auth_links[t].present
                /\ auth_links'[t].present
                /\ auth_links'[t].email = issued_for'[t]
                /\ ~auth_links'[t].used
                /\ \A u \in Tokens \ {t} : auth_links'[u] = auth_links[u]]_vars
    /\ [][\A t \in Tokens :
             auth_links[t].present => auth_links'[t].present]_vars

\* two calls have returned, the second one on a store that held a record
C26_Witness ==
    \E t, u \in Tokens :
        /\ t # u
        /\ auth_links[t].present /\ auth_links[u].present
        /\ auth_links[t].created_at < auth_links[u].created_at
        /\ auth_links[t].used

\* C27: for a user record whose authorizations are NULL, create_jwt returns
\* a credential for the user's email that carries no role flag.
C27_UnsetAuthorizationsIssue ==
    \A e \in Emails :
        LET user_data == get_user_by_email(e)
            r == create_jwt(e, user_data)
        IN  (user_data.present /\ user_data.authorizations.null)
                => /\ r.ok
                   /\ r.jwt.email = e
                   /\ r.jwt.flags = {}

\* the request passed the contributor gate
PassedContributorGate(r) ==
    require_contributor_dependency(r.header).status = 200

\* the request holds what its handler validates and rejects
ValidationFails(r) ==
    \/ /\ r.kind = "add-game"
       /\ r.game.min_players > r.game.max_players
    \/ /\ r.kind = "upload-csv"
       /\ \/ ~endswith(r.file.filename, ".csv")
          \/ ~(RequiredColumns \subseteq r.file.fieldnames)

\* C28: a request a handler rejects in its validation (POST /games with
\* min_players > max_players, POST /games/upload-csv with a name not ending
\* in .csv or without a required column) is answered 400 and table games is
\* left as it was.
C28_ValidationAnswers400 ==
    [][(/\ response'.req.kind \in {"add-game", "upload-csv"}
        /\ PassedContributorGate(response'.req)
        /\ ValidationFails(response'.req))
           => /\ response'.status = 400
              /\ games' = games]_vars

\* C29: an import that reaches the row loop answers 200, and every data row
\* of the file is either inserted and counted in games_added or reported by
\* one entry of errors: games_added plus the number of entries is the number
\* of data rows, and table games grows by games_added.
C29_EveryRowAccounted ==
    [][(/\ response'.req.kind = "upload-csv"
        /\ PassedContributorGate(response'.req)
        /\ ~ValidationFails(response'.req))
           => /\ response'.status = 200
              /\ response'.games_added + Len(response'.errors.entries)
                     = Len(response'.req.file.rows)
              /\ Len(games') = Len(games) + response'.games_added]_vars

\* C30: the add-game form, the CSV-upload form and load_users are shown or
\* triggered by a navigation only while logged_in() is true and the current
\* user info carries the matching role flag; after handle_logout none of
\* them is, until a credential is stored again.
C30_RoleUiFollowsSession ==
    /\ (shown.add_game_form \/ shown.csv_upload_form) =>
           /\ logged_in
           /\ <<"is_contributor">> \in current_user_info.authorizations
    /\ shown.load_users =>
           /\ logged_in
           /\ <<"is_admin">> \in current_user_info.authorizations

====
